---- MODULE Spec2Model ----
(***************************************************************************)
(* A model of the DICOM data set readers of dicom-rs (core/src/data).      *)
(*                                                                         *)
(* The byte source is a sequence of cells.  A cell is an encoded header    *)
(* (one cell stands for the bytes of one element or item header), one      *)
(* byte of value data, or a place at which the source fails with an I/O    *)
(* error other than an unexpected end of file.  Offsets and lengths count  *)
(* cells.  u32 quantities (Length, depth) are pairs <<hi, lo>> of 16-bit   *)
(* limbs, so that 0xFFFF_FFFF and wrap-around keep their 32-bit meaning.   *)
(***************************************************************************)
EXTENDS Integers, Sequences, FiniteSets, TLC

(***************************************************************************)
(* Bounds of the model.                                                    *)
(***************************************************************************)
\* longest source drawn from the general cell alphabet
MaxSourceLen == 4
\* calls of next() made after the reader has become terminal
MaxFusedCalls == 2
Near == 2
MaxHeaders == 3

(***************************************************************************)
(* u32 arithmetic on 16-bit limbs.                                         *)
(***************************************************************************)
Limb == 65536

U32(n) == <<n \div Limb, n % Limb>>

\* u32 + 1 and u32 - 1: the wrapped value and whether the exact result
\* left the range of u32 (a debug build panics there, a release build wraps)
U32Inc(a) ==
    LET lo == a[2] + 1
        hi == a[1] + (lo \div Limb)
    IN  [value |-> <<hi % Limb, lo % Limb>>, overflow |-> hi >= Limb]

U32Dec(a) ==
    LET lo == a[2] - 1
        hi == IF lo < 0 THEN a[1] - 1 ELSE a[1]
    IN  [value |-> <<hi % Limb, lo % Limb>>, overflow |-> hi < 0]

(***************************************************************************)
(* Option<T> as a sequence of at most one element.                         *)
(***************************************************************************)
None == <<>>
Some(x) == <<x>>
is_some(o) == o # <<>>
unwrap(o) == o[1]

(***************************************************************************)
(* Primitive types: Tag, VR, Length, headers (data/mod.rs).                *)
(***************************************************************************)
Tag(g, e) == <<g, e>>

\* (FFFE,E000), (FFFE,E00D), (FFFE,E0DD)
ItemTag == Tag(65534, 57344)
ItemDelimiterTag == Tag(65534, 57357)
SequenceDelimiterTag == Tag(65534, 57565)
\* (0008,0005) Specific Character Set
CharacterSetTag == Tag(8, 5)
\* (0010,0010), (0040,0275), (0040,A030): tags of the documented scenarios
PatientNameTag == Tag(16, 16)
RequestAttributesTag == Tag(64, 629)
VerificationDateTimeTag == Tag(64, 41008)

UNDEFINED_LEN == <<65535, 65535>>

Length_undefined == UNDEFINED_LEN

Length_is_undefined(l) == l = UNDEFINED_LEN

Length_eq_AnyEqual(l1, l2) == l1 = l2

\* PartialEq for Length: an undefined length equals nothing
Length_eq(l1, l2) ==
    IF l1 = UNDEFINED_LEN \/ l2 = UNDEFINED_LEN THEN FALSE ELSE l1 = l2

Length_ne(l1, l2) == ~Length_eq(l1, l2)

DataElementHeader(tag, vr, len) == [tag |-> tag, vr |-> vr, len |-> len]

Item(len) == [kind |-> "Item", len |-> len]
ItemDelimiter == [kind |-> "ItemDelimiter"]
SequenceDelimiter == [kind |-> "SequenceDelimiter"]

Ok(v) == [ok |-> TRUE, value |-> v]
Err(e) == [ok |-> FALSE, err |-> e]

SequenceItemHeader_new_LaxItemDelimiter(tag, len) ==
    IF tag = ItemTag THEN Ok(Item(len))
    ELSE IF tag = ItemDelimiterTag THEN
        IF len # UNDEFINED_LEN /\ Length_ne(len, U32(0))
            THEN Err("UnexpectedDataValueLength")
        ELSE Ok(ItemDelimiter)
    ELSE IF tag = SequenceDelimiterTag THEN Ok(SequenceDelimiter)
    ELSE Err("UnexpectedElement")

\* SequenceItemHeader::new
SequenceItemHeader_new(tag, len) ==
    IF tag = ItemTag THEN Ok(Item(len))
    ELSE IF tag = ItemDelimiterTag THEN
        IF Length_ne(len, U32(0)) THEN Err("UnexpectedDataValueLength")
        ELSE Ok(ItemDelimiter)
    ELSE IF tag = SequenceDelimiterTag THEN Ok(SequenceDelimiter)
    ELSE Err("UnexpectedElement")

(***************************************************************************)
(* Text (data/text.rs).  A string is the sequence of its characters.       *)
(***************************************************************************)
Str_Default == <<"D", "e", "f", "a", "u", "l", "t">>
Str_ISO_IR_6 == <<"I", "S", "O", "_", "I", "R", "_", "6">>
Str_ISO_IR_192 == <<"I", "S", "O", "_", "I", "R", "_", "1", "9", "2">>
\* the defined term of the DICOM standard, with a space
Str_ISO_IR_space_192 == <<"I", "S", "O", "_", "I", "R", " ", "1", "9", "2">>
Str_ISO_IR_100 == <<"I", "S", "O", "_", "I", "R", "_", "1", "0", "0">>

from_code_AcceptAny(uid) ==
    IF uid = Str_Default \/ uid = Str_ISO_IR_6 THEN Some("Default")
    ELSE Some("IsoIr192")

\* SpecificCharacterSet::from_code
from_code(uid) ==
    IF uid = Str_Default \/ uid = Str_ISO_IR_6 THEN Some("Default")
    ELSE IF uid = Str_ISO_IR_192 THEN Some("IsoIr192")
    ELSE None

(***************************************************************************)
(* The source and the parser capability.  The parser is an external        *)
(* collaborator of the readers: decode_header, decode_item_header,         *)
(* read_value, set_character_set.                                          *)
(***************************************************************************)
H(tag, vr, len) == [k |-> "H", tag |-> tag, vr |-> vr, len |-> len]
D(b) == [k |-> "D", b |-> b]
IoFailure == [k |-> "X"]

\* the bytes of a string, as data cells
Bytes(s) == [i \in 1..Len(s) |-> D(s[i])]

\* value representations whose values are read as strings
StringVRs == {"AE", "AS", "CS", "DA", "DS", "DT", "IS", "LO", "LT", "PN",
              "SH", "ST", "TM", "UC", "UI", "UR", "UT"}

\* a Read on the source at offset p: what a header decoder meets there
decode_header(src, p) ==
    IF p >= Len(src) THEN Err("UnexpectedEof")
    ELSE IF src[p + 1].k = "H"
        THEN Ok(DataElementHeader(src[p + 1].tag, src[p + 1].vr, src[p + 1].len))
    ELSE IF src[p + 1].k = "X" THEN Err("Io")
    ELSE Err("InvalidHeader")

decode_item_header(src, p) ==
    IF p >= Len(src) THEN Err("UnexpectedEof")
    ELSE IF src[p + 1].k = "H"
        THEN SequenceItemHeader_new(src[p + 1].tag, src[p + 1].len)
    ELSE IF src[p + 1].k = "X" THEN Err("Io")
    ELSE Err("InvalidHeader")

\* the number of cells a decode consumed
HeaderSize == 1

\* read_value: consumes header.len bytes and yields a PrimitiveValue
read_value(src, p, header) ==
    IF header.len[1] > 0 \/ p + header.len[2] > Len(src)
        THEN Err("UnexpectedEof")
    ELSE LET raw == SubSeq(src, p + 1, p + header.len[2]) IN
        IF \E i \in 1..Len(raw) : raw[i].k = "X" THEN Err("Io")
        ELSE Ok([vr |-> header.vr, raw |-> raw])

\* PrimitiveValue::string
string(v) ==
    IF v.vr \in StringVRs
        THEN Some([i \in 1..Len(v.raw) |->
                      IF v.raw[i].k = "D" THEN v.raw[i].b ELSE "?"])
    ELSE None

(***************************************************************************)
(* DicomDataToken and the return values of Iterator::next.                 *)
(***************************************************************************)
ElementHeader(h) == [t |-> "ElementHeader", h |-> h]
SequenceStart(tag, len) == [t |-> "SequenceStart", tag |-> tag, len |-> len]
SequenceEnd == [t |-> "SequenceEnd"]
ItemStart(len) == [t |-> "ItemStart", len |-> len]
ItemEnd == [t |-> "ItemEnd"]
PrimitiveValue(v) == [t |-> "PrimitiveValue", v |-> v]

RetNone == [kind |-> "None"]
RetOk(tok) == [kind |-> "Ok", token |-> tok]
RetErr(e) == [kind |-> "Err", err |-> e]

(***************************************************************************)
(* State.                                                                  *)
(***************************************************************************)
VARIABLES
    source,          \* the cells of the byte source
    pos,             \* read offset of the source
    charset,         \* the parser's active character set
    depth,           \* DataSetReader.depth
    in_sequence,     \* DataSetReader.in_sequence
    hard_break,      \* DataSetReader.hard_break
    last_header,     \* DataSetReader.last_header
    overflow_checks, \* build profile: arithmetic overflow panics (debug)
    panicked,        \* some call of next() panicked instead of returning
    history,         \* one record per call of next(), oldest first
    fused_calls,     \* calls made with hard_break already set
    calc             \* the last call of a function of the data model

vars == <<source, pos, charset, depth, in_sequence, hard_break, last_header,
          overflow_checks, panicked, history, fused_calls, calc>>

(***************************************************************************)
(* Sources.                                                                *)
(***************************************************************************)
Seqs(S, n) == UNION {[1..k -> S] : k \in 0..n}

Prefixes(s) == {SubSeq(s, 1, k) : k \in 0..Len(s)}

\* cells of the exhaustively enumerated sources
Cells == {
    H(PatientNameTag, "PN", U32(1)),
    H(CharacterSetTag, "CS", U32(1)),
    H(RequestAttributesTag, "SQ", UNDEFINED_LEN),
    H(ItemTag, "UN", UNDEFINED_LEN),
    H(ItemDelimiterTag, "UN", U32(0)),
    H(SequenceDelimiterTag, "UN", U32(0)),
    D("A"),
    IoFailure }

\* one (0008,0005) element of VR vr with the given value, then a
\* (0010,0010) element holding two bytes (U+00E9 in UTF-8)
CharacterSetThenName(vr, s) ==
    <<H(CharacterSetTag, vr, U32(Len(s)))>> \o Bytes(s)
        \o <<H(PatientNameTag, "PN", U32(2)), D("xC3"), D("xA9")>>

\* A: one primitive element
ScenarioA ==
    <<H(PatientNameTag, "PN", U32(8))>>
        \o Bytes(<<"A", "B", "C", "^", "D", "E", "F", " ">>)

\* B: a defined-length sequence holding one defined-length item holding one
\* primitive element, no delimiters
ScenarioB ==
    <<H(RequestAttributesTag, "SQ", U32(2 * HeaderSize + 2)),
      H(ItemTag, "UN", U32(HeaderSize + 2)),
      H(VerificationDateTimeTag, "DT", U32(2)), D("2"), D("0")>>

\* C: an undefined-length sequence holding one undefined-length item, closed
\* by an item delimiter and a sequence delimiter
ScenarioC ==
    <<H(RequestAttributesTag, "SQ", UNDEFINED_LEN),
      H(ItemTag, "UN", UNDEFINED_LEN),
      H(VerificationDateTimeTag, "DT", U32(2)), D("2"), D("0"),
      H(ItemDelimiterTag, "UN", U32(0)),
      H(SequenceDelimiterTag, "UN", U32(0))>>

\* two Specific Character Set elements in a row
TwoCharacterSets ==
    <<H(CharacterSetTag, "CS", U32(10))>> \o Bytes(Str_ISO_IR_192)
        \o <<H(CharacterSetTag, "CS", U32(8))>> \o Bytes(Str_ISO_IR_6)

\* D: Specific Character Set "ISO_IR 192", then a name in UTF-8
ScenarioD == CharacterSetThenName("CS", Str_ISO_IR_space_192)

\* a sequence closed by a sequence delimiter whose length field is not 0,
\* then a sequence with an item delimiter and an item of defined length
NonZeroDelimiter ==
    <<H(RequestAttributesTag, "SQ", UNDEFINED_LEN),
      H(SequenceDelimiterTag, "UN", U32(4)),
      H(RequestAttributesTag, "SQ", UNDEFINED_LEN),
      H(ItemDelimiterTag, "UN", U32(0)),
      H(ItemTag, "UN", U32(2))>>

\* a (0010,0010) element whose value reads as a character set code
NameLikeCharacterSet ==
    <<H(PatientNameTag, "PN", U32(10))>> \o Bytes(Str_ISO_IR_192)

\* a header with VR SQ and the tag of an item delimiter, then an item
DelimiterTaggedSequence ==
    <<H(ItemDelimiterTag, "SQ", UNDEFINED_LEN),
      H(ItemTag, "UN", UNDEFINED_LEN),
      H(PatientNameTag, "PN", U32(1)), D("A")>>

Scenarios == {
    ScenarioA, ScenarioB, ScenarioC, ScenarioD, TwoCharacterSets,
    NonZeroDelimiter, NameLikeCharacterSet, DelimiterTaggedSequence,
    CharacterSetThenName("CS", Str_ISO_IR_192),
    CharacterSetThenName("CS", Str_ISO_IR_6),
    CharacterSetThenName("CS", Str_Default),
    CharacterSetThenName("CS", Str_ISO_IR_100),
    CharacterSetThenName("US", Str_ISO_IR_192) }

\* every source of the model; a prefix of a scenario is a truncated input
Sources == Seqs(Cells, MaxSourceLen) \cup UNION {Prefixes(s) : s \in Scenarios}

CharacterSets == {"Default", "IsoIr192"}

(***************************************************************************)
(* DataSetReader (data/dataset.rs).                                        *)
(***************************************************************************)
\* the branch of next() that a call takes
StateOf(hb, inseq, lh) ==
    IF hb THEN "Terminal"
    ELSE IF inseq THEN "S2"
    ELSE IF is_some(lh) THEN "S1"
    ELSE "S0"

State == StateOf(hard_break, in_sequence, last_header)

\* no function of the data model has been called
Idle == [fn |-> "idle"]

\* DataSetReader::new, new_with, new_with_dictionary
Init ==
    /\ source \in Sources
    /\ pos = 0
    /\ charset \in CharacterSets
    /\ depth = U32(0)
    /\ in_sequence = FALSE
    /\ hard_break = FALSE
    /\ last_header = None
    /\ overflow_checks \in BOOLEAN
    /\ panicked = FALSE
    /\ history = <<>>
    /\ fused_calls = 0
    /\ calc = Idle

\* the record of one call: the branch taken, the parser operations invoked
\* in order, and what the call returned
Call(ops, ret) == [state |-> State, ops |-> ops, ret |-> ret]

Returns(ops, ret) == history' = Append(history, Call(ops, ret))

Panics(ops) ==
    /\ panicked' = TRUE
    /\ history' = Append(history, Call(ops, [kind |-> "Panic"]))

\* a parser operation as a call invoked it, with its result
OpDecodeItemHeader(r) == [op |-> "decode_item_header", res |-> r]
OpDecodeHeader_ItemDecoder(r) == [op |-> "decode_item_header", res |-> r]

OpDecodeHeader(r) == [op |-> "decode_header", res |-> r]
OpReadValue(h, cs, r) ==
    [op |-> "read_value", header |-> h, charset |-> cs, res |-> r]
OpSetCharacterSet(cs, r) ==
    [op |-> "set_character_set", charset |-> cs, res |-> r]

\* A call that is not fused decodes a header (consuming HeaderSize cells),
\* reads the value of the header decoded by the call before it, or fails and
\* sets hard_break: a source of n cells is good for 2n + 1 such calls.  The
\* model stops a consumer that has made more calls than that.
CanCall == Len(history) < 2 * Len(source) + 1

\* next(): the fuse
Next_HardBreak ==
    /\ hard_break
    /\ fused_calls < MaxFusedCalls
    /\ fused_calls' = fused_calls + 1
    /\ Returns(<<>>, RetNone)
    /\ UNCHANGED <<source, pos, charset, depth, in_sequence, hard_break,
                   last_header, overflow_checks, panicked, calc>>

on_item_header_KeepDepth(header, d) ==
    IF header.kind = "Item" THEN
        [in_sequence |-> FALSE, depth |-> d, overflow |-> FALSE,
         token |-> ItemStart(header.len)]
    ELSE IF header.kind = "ItemDelimiter" THEN
        [in_sequence |-> TRUE, depth |-> d, overflow |-> FALSE,
         token |-> ItemEnd]
    ELSE
        [in_sequence |-> FALSE, depth |-> d, overflow |-> FALSE,
         token |-> SequenceEnd]

\* next(), in_sequence: the match on a decoded item header
on_item_header(header, d) ==
    IF header.kind = "Item" THEN
        [in_sequence |-> FALSE, depth |-> d, overflow |-> FALSE,
         token |-> ItemStart(header.len)]
    ELSE IF header.kind = "ItemDelimiter" THEN
        [in_sequence |-> TRUE, depth |-> d, overflow |-> FALSE,
         token |-> ItemEnd]
    ELSE
        [in_sequence |-> FALSE, depth |-> U32Dec(d).value,
         overflow |-> U32Dec(d).overflow, token |-> SequenceEnd]

on_item_header_err_EofEnds(e) ==
    IF e = "UnexpectedEof" THEN [hard_break |-> TRUE, ret |-> RetNone]
    ELSE [hard_break |-> TRUE, ret |-> RetErr(e)]

\* next(), in_sequence: a failed item header decode
on_item_header_err(e) == [hard_break |-> TRUE, ret |-> RetErr(e)]

Next_InSequence ==
    /\ CanCall
    /\ ~hard_break
    /\ in_sequence
    /\ LET r == decode_item_header(source, pos) IN
        IF r.ok THEN
            LET o == on_item_header(r.value, depth) IN
            /\ pos' = pos + HeaderSize
            /\ IF o.overflow /\ overflow_checks THEN
                    /\ Panics(<<OpDecodeItemHeader(r)>>)
                    /\ UNCHANGED <<depth, in_sequence>>
               ELSE
                    /\ depth' = o.depth
                    /\ in_sequence' = o.in_sequence
                    /\ Returns(<<OpDecodeItemHeader(r)>>, RetOk(o.token))
                    /\ UNCHANGED panicked
            /\ UNCHANGED hard_break
        ELSE
            LET o == on_item_header_err(r.err) IN
            /\ hard_break' = o.hard_break
            /\ Returns(<<OpDecodeItemHeader(r)>>, o.ret)
            /\ UNCHANGED <<pos, depth, in_sequence, panicked>>
    /\ UNCHANGED <<source, charset, last_header, overflow_checks, fused_calls,
                   calc>>

on_value_err_NoBreak(e) ==
    [hard_break |-> FALSE, last_header |-> None, ret |-> RetErr(e)]

\* next(), last_header set: a failed value read
on_value_err(e) ==
    [hard_break |-> TRUE, last_header |-> None, ret |-> RetErr(e)]

value_charset_WrongTag(lh, v) ==
    IF is_some(lh) /\ unwrap(lh).tag = PatientNameTag /\ is_some(string(v))
        THEN from_code(unwrap(string(v)))
    ELSE None

\* next(), last_header set: the character set named by the value of a
\* Specific Character Set element, if any
value_charset(lh, v) ==
    IF is_some(lh) /\ unwrap(lh).tag = CharacterSetTag /\ is_some(string(v))
        THEN from_code(unwrap(string(v)))
    ELSE None

\* next(), last_header set: a failed set_character_set
on_set_character_set_err(e) ==
    [hard_break |-> TRUE, last_header |-> None, ret |-> RetErr(e)]

on_value_KeepHeader(v) ==
    [last_header |-> last_header, ret |-> RetOk(PrimitiveValue(v))]

\* next(), last_header set: the value is emitted
on_value(v) == [last_header |-> None, ret |-> RetOk(PrimitiveValue(v))]

Next_LastHeader ==
    /\ CanCall
    /\ ~hard_break
    /\ ~in_sequence
    /\ is_some(last_header)
    /\ LET header == unwrap(last_header)
           r == read_value(source, pos, header)
           rv == OpReadValue(header, charset, r)
       IN
        IF ~r.ok THEN
            LET o == on_value_err(r.err) IN
            /\ hard_break' = o.hard_break
            /\ last_header' = o.last_header
            /\ Returns(<<rv>>, o.ret)
            /\ UNCHANGED <<pos, charset>>
        ELSE
            LET v == r.value
                cs == value_charset(last_header, v)
            IN
            /\ pos' = pos + Len(v.raw)
            /\ IF is_some(cs) THEN
                    \* set_character_set succeeds or fails
                    \E set_ok \in BOOLEAN :
                        IF set_ok THEN
                            LET o == on_value(v) IN
                            /\ charset' = unwrap(cs)
                            /\ last_header' = o.last_header
                            /\ Returns(<<rv, OpSetCharacterSet(unwrap(cs), Ok(<<>>))>>, o.ret)
                            /\ UNCHANGED hard_break
                        ELSE
                            LET o == on_set_character_set_err("UnsupportedCharacterSet") IN
                            /\ hard_break' = o.hard_break
                            /\ last_header' = o.last_header
                            /\ Returns(<<rv, OpSetCharacterSet(unwrap(cs), Err("UnsupportedCharacterSet"))>>, o.ret)
                            /\ UNCHANGED charset
               ELSE
                    LET o == on_value(v) IN
                    /\ last_header' = o.last_header
                    /\ Returns(<<rv>>, o.ret)
                    /\ UNCHANGED <<charset, hard_break>>
    /\ UNCHANGED <<source, depth, in_sequence, overflow_checks, panicked,
                   fused_calls, calc>>

on_header_PendingDelimiter(header, d) ==
    IF header.vr = "SQ" THEN
        [in_sequence |-> TRUE, depth |-> U32Inc(d).value,
         overflow |-> U32Inc(d).overflow, last_header |-> None,
         token |-> SequenceStart(header.tag, header.len)]
    ELSE IF header.tag = ItemDelimiterTag THEN
        [in_sequence |-> TRUE, depth |-> d, overflow |-> FALSE,
         last_header |-> Some(header), token |-> ItemEnd]
    ELSE
        [in_sequence |-> FALSE, depth |-> d, overflow |-> FALSE,
         last_header |-> Some(header), token |-> ElementHeader(header)]

on_header_DelimiterToS0(header, d) ==
    IF header.vr = "SQ" THEN
        [in_sequence |-> TRUE, depth |-> U32Inc(d).value,
         overflow |-> U32Inc(d).overflow, last_header |-> None,
         token |-> SequenceStart(header.tag, header.len)]
    ELSE IF header.tag = ItemDelimiterTag THEN
        [in_sequence |-> FALSE, depth |-> d, overflow |-> FALSE,
         last_header |-> None, token |-> ItemEnd]
    ELSE
        [in_sequence |-> FALSE, depth |-> d, overflow |-> FALSE,
         last_header |-> Some(header), token |-> ElementHeader(header)]

on_header_DelimiterFirst(header, d) ==
    IF header.tag = ItemDelimiterTag THEN
        [in_sequence |-> TRUE, depth |-> d, overflow |-> FALSE,
         last_header |-> None, token |-> ItemEnd]
    ELSE IF header.vr = "SQ" THEN
        [in_sequence |-> TRUE, depth |-> U32Inc(d).value,
         overflow |-> U32Inc(d).overflow, last_header |-> None,
         token |-> SequenceStart(header.tag, header.len)]
    ELSE
        [in_sequence |-> FALSE, depth |-> d, overflow |-> FALSE,
         last_header |-> Some(header), token |-> ElementHeader(header)]

\* next(), otherwise: the match on a decoded element header
on_header(header, d) ==
    IF header.vr = "SQ" THEN
        [in_sequence |-> TRUE, depth |-> U32Inc(d).value,
         overflow |-> U32Inc(d).overflow, last_header |-> None,
         token |-> SequenceStart(header.tag, header.len)]
    ELSE IF header.tag = ItemDelimiterTag THEN
        [in_sequence |-> TRUE, depth |-> d, overflow |-> FALSE,
         last_header |-> None, token |-> ItemEnd]
    ELSE
        [in_sequence |-> FALSE, depth |-> d, overflow |-> FALSE,
         last_header |-> Some(header), token |-> ElementHeader(header)]

on_header_err_NoBreak(e) == [hard_break |-> FALSE, ret |-> RetErr(e)]

\* next(), otherwise: a failed header decode
on_header_err(e) ==
    IF e = "UnexpectedEof" THEN [hard_break |-> TRUE, ret |-> RetNone]
    ELSE [hard_break |-> TRUE, ret |-> RetErr(e)]

Next_DecodeHeader ==
    /\ CanCall
    /\ ~hard_break
    /\ ~in_sequence
    /\ ~is_some(last_header)
    /\ LET r == decode_header(source, pos) IN
        IF r.ok THEN
            LET o == on_header(r.value, depth) IN
            /\ pos' = pos + HeaderSize
            /\ IF o.overflow /\ overflow_checks THEN
                    \* in_sequence is assigned before depth += 1 panics
                    /\ in_sequence' = o.in_sequence
                    /\ Panics(<<OpDecodeHeader(r)>>)
                    /\ UNCHANGED <<depth, last_header>>
               ELSE
                    /\ in_sequence' = o.in_sequence
                    /\ depth' = o.depth
                    /\ last_header' = o.last_header
                    /\ Returns(<<OpDecodeHeader(r)>>, RetOk(o.token))
                    /\ UNCHANGED panicked
            /\ UNCHANGED hard_break
        ELSE
            LET o == on_header_err(r.err) IN
            /\ hard_break' = o.hard_break
            /\ Returns(<<OpDecodeHeader(r)>>, o.ret)
            /\ UNCHANGED <<pos, depth, in_sequence, last_header, panicked>>
    /\ UNCHANGED <<source, charset, overflow_checks, fused_calls, calc>>

\* one call of DataSetReader::next
Next ==
    \/ Next_HardBreak
    \/ Next_InSequence
    \/ Next_LastHeader
    \/ Next_DecodeHeader

Spec == Init /\ [][Next]_vars

\* the consumer keeps calling next()
FairSpec == Spec /\ WF_vars(Next)

(***************************************************************************)
(* Views of the history.                                                   *)
(***************************************************************************)
Calls == 1..Len(history)

IsTok(i, t) == history[i].ret.kind = "Ok" /\ history[i].ret.token.t = t

IsErr(i) == history[i].ret.kind = "Err"

IsEnd(i) == history[i].ret.kind = "None"

(***************************************************************************)
(* Claims about DataSetReader.                                             *)
(***************************************************************************)
\* C1: once a call of next() has returned an error or end-of-stream, every
\* later call returns end-of-stream, whatever is left in the source, and
\* hard_break stays set.
C1_Fused ==
    /\ \A i \in Calls : \A j \in Calls :
        (i < j /\ (IsErr(i) \/ IsEnd(i))) => IsEnd(j)
    /\ (\E i \in Calls : IsErr(i) \/ IsEnd(i)) => hard_break

\* an error, then two more calls, with a decodable header left unread
C1_Witness ==
    /\ Len(history) >= 3
    /\ IsErr(Len(history) - 2)
    /\ IsEnd(Len(history) - 1)
    /\ IsEnd(Len(history))
    /\ pos < Len(source)
    /\ \E k \in (pos + 1)..Len(source) : source[k].k = "H"

\* C2: the call after one that emitted ElementHeader(h) reads the value for
\* h and returns a PrimitiveValue or an error that leaves the reader
\* terminal; a PrimitiveValue only ever follows an ElementHeader.
C2_HeaderThenValue ==
    /\ \A i \in Calls :
        IsTok(i, "ElementHeader") =>
            IF i = Len(history)
                THEN /\ State = "S1"
                     /\ last_header = Some(history[i].ret.token.h)
            ELSE LET c == history[i + 1] IN
                /\ Len(c.ops) >= 1
                /\ c.ops[1].op = "read_value"
                /\ c.ops[1].header = history[i].ret.token.h
                /\ \/ IsTok(i + 1, "PrimitiveValue")
                   \/ IsErr(i + 1) /\ hard_break
    /\ \A i \in Calls :
        IsTok(i, "PrimitiveValue") => i > 1 /\ IsTok(i - 1, "ElementHeader")

\* a header, its value, and a second header whose value read fails
C2_Witness ==
    \E i \in Calls :
        /\ i + 3 <= Len(history)
        /\ IsTok(i, "ElementHeader")
        /\ IsTok(i + 1, "PrimitiveValue")
        /\ IsTok(i + 2, "ElementHeader")
        /\ IsErr(i + 3)

Count(t) == Cardinality({i \in Calls : IsTok(i, t)})

CountUpTo(t, n) == Cardinality({i \in 1..n : IsTok(i, t)})

Ended == history # <<>> /\ IsEnd(Len(history))

\* C3: a run that reaches end-of-stream without an error has emitted as many
\* SequenceStart as SequenceEnd and as many ItemStart as ItemEnd tokens, and
\* no SequenceEnd without an open SequenceStart before it.
C3_Balanced ==
    (Ended /\ \A i \in Calls : history[i].ret.kind \in {"Ok", "None"}) =>
        /\ Count("SequenceStart") = Count("SequenceEnd")
        /\ Count("ItemStart") = Count("ItemEnd")
        /\ \A n \in Calls :
            IsTok(n, "SequenceEnd") =>
                CountUpTo("SequenceEnd", n) <= CountUpTo("SequenceStart", n)

\* the parser operation of call i met an unexpected end of file
EofOp(i) ==
    /\ Len(history[i].ops) >= 1
    /\ ~history[i].ops[1].res.ok
    /\ history[i].ops[1].res.err = "UnexpectedEof"

\* C4: an unexpected EOF ends the stream cleanly only when decode_header
\* meets it in S0; met by decode_item_header (S2) or read_value (S1) it is
\* returned as an error, and the reader is terminal after it.
C4_EofCleanOnlyInS0 ==
    \A i \in Calls :
        /\ (EofOp(i) /\ history[i].state = "S0") => IsEnd(i)
        /\ (EofOp(i) /\ history[i].state \in {"S1", "S2"}) =>
            /\ history[i].ret = RetErr("UnexpectedEof")
            /\ hard_break
            /\ \A j \in Calls : j > i => IsEnd(j)
        /\ (IsEnd(i) /\ history[i].state # "Terminal") =>
            /\ history[i].state = "S0"
            /\ history[i].ops[1].op = "decode_header"
            /\ EofOp(i)

\* a value cut short by the end of the source, then a fused call
C4_Witness ==
    \E i \in Calls :
        /\ EofOp(i)
        /\ history[i].state = "S1"
        /\ history[i].ops[1].header.len = U32(2)
        /\ pos = Len(source) - 1
        /\ i < Len(history)
        /\ IsEnd(i + 1)

\* call i read the value of a (0008,0005) element
ReadCharacterSetValue(i) ==
    /\ history[i].state = "S1"
    /\ history[i].ops[1].header.tag = CharacterSetTag
    /\ history[i].ops[1].res.ok

ValueRead(i) == history[i].ops[1].res.value

\* C5: when the value read for (0008,0005) is a string that from_code maps
\* to a character set, the call invokes set_character_set with it before it
\* returns the value; when that fails the call returns the error instead,
\* and the reader is terminal with no pending header.
C5_CharacterSetSwitch ==
    \A i \in Calls :
        (/\ ReadCharacterSetValue(i)
         /\ is_some(string(ValueRead(i)))
         /\ is_some(from_code(unwrap(string(ValueRead(i)))))) =>
            LET c == history[i]
                cs == unwrap(from_code(unwrap(string(ValueRead(i)))))
            IN
            /\ Len(c.ops) = 2
            /\ c.ops[2].op = "set_character_set"
            /\ c.ops[2].charset = cs
            /\ IF c.ops[2].res.ok THEN
                    /\ c.ret = RetOk(PrimitiveValue(ValueRead(i)))
                    /\ i = Len(history) => charset = cs
               ELSE
                    /\ c.ret = RetErr(c.ops[2].res.err)
                    /\ hard_break
                    /\ last_header = None
                    /\ \A j \in Calls : j > i => IsEnd(j)

\* a switch that succeeded, then one that failed, then a fused call
C5_Witness ==
    \E i \in Calls : \E j \in Calls :
        /\ i < j
        /\ j < Len(history)
        /\ Len(history[i].ops) = 2
        /\ history[i].ops[2].res.ok
        /\ history[i].ops[1].charset # history[i].ops[2].charset
        /\ Len(history[j].ops) = 2
        /\ ~history[j].ops[2].res.ok

RecognizedCodes == {Str_Default, Str_ISO_IR_6, Str_ISO_IR_192}

Unrecognized(v) ==
    \/ ~is_some(string(v))
    \/ unwrap(string(v)) \notin RecognizedCodes

\* C6: when the value read for (0008,0005) is not a string, or is a string
\* other than "Default", "ISO_IR_6", "ISO_IR_192", the call leaves the
\* active character set alone, returns the value and is not terminal.
C6_UnknownTolerated ==
    [][(/\ State = "S1"
        /\ unwrap(last_header).tag = CharacterSetTag
        /\ read_value(source, pos, unwrap(last_header)).ok
        /\ Unrecognized(read_value(source, pos, unwrap(last_header)).value))
        =>
       (/\ charset' = charset
        /\ ~hard_break'
        /\ Len(history'[Len(history')].ops) = 1
        /\ history'[Len(history')].ret = RetOk(PrimitiveValue(
               read_value(source, pos, unwrap(last_header)).value)))]_vars

\* the value "ISO_IR_100" of a (0008,0005) element has just been returned
C6_Witness ==
    /\ history # <<>>
    /\ ReadCharacterSetValue(Len(history))
    /\ string(ValueRead(Len(history))) = Some(Str_ISO_IR_100)
    /\ IsTok(Len(history), "PrimitiveValue")
    /\ ~hard_break

\* the tokens emitted so far, oldest first
OkCalls == SelectSeq(history, LAMBDA c : c.ret.kind = "Ok")

Tokens == [i \in 1..Len(OkCalls) |-> OkCalls[i].ret.token]

NoFailure == \A i \in Calls : history[i].ret.kind \in {"Ok", "None"}

\* a defined-length sequence element holding one defined-length item holding
\* one primitive element, the lengths covering exactly what follows
DefinedLengthSequenceInput ==
    /\ Len(source) >= 3
    /\ source[1].k = "H"
    /\ source[1].vr = "SQ"
    /\ source[1].len = U32(Len(source) - HeaderSize)
    /\ source[2].k = "H"
    /\ source[2].tag = ItemTag
    /\ source[2].len = U32(Len(source) - 2 * HeaderSize)
    /\ source[3].k = "H"
    /\ source[3].vr # "SQ"
    /\ source[3].tag[1] # 65534
    /\ source[3].len = U32(Len(source) - 3 * HeaderSize)
    /\ \A k \in 4..Len(source) : source[k].k = "D"

\* C7: for a defined-length sequence holding one defined-length item holding
\* one primitive element, without delimiters, the reader emits exactly
\* SequenceStart{tag,L}, ItemStart{M}, ElementHeader, PrimitiveValue,
\* ItemEnd, SequenceEnd before end-of-stream.
C7_DefinedLengthTokens ==
    (DefinedLengthSequenceInput /\ Ended) =>
        /\ NoFailure
        /\ Len(Tokens) = 6
        /\ Tokens[1] = SequenceStart(source[1].tag, source[1].len)
        /\ Tokens[2] = ItemStart(source[2].len)
        /\ Tokens[3] = ElementHeader(
               DataElementHeader(source[3].tag, source[3].vr, source[3].len))
        /\ Tokens[4].t = "PrimitiveValue"
        /\ Tokens[5] = ItemEnd
        /\ Tokens[6] = SequenceEnd

\* primitive elements one after the other, each with all of its value
RECURSIVE WellFormedPrimitives(_)
WellFormedPrimitives(s) ==
    \/ s = <<>>
    \/ /\ s[1].k = "H"
       /\ s[1].vr # "SQ"
       /\ s[1].tag[1] # 65534
       /\ s[1].len[1] = 0
       /\ s[1].len[2] < Len(s)
       /\ \A k \in 2..(1 + s[1].len[2]) : s[k].k = "D"
       /\ WellFormedPrimitives(SubSeq(s, 2 + s[1].len[2], Len(s)))

\* an undefined-length sequence element with one undefined-length item that
\* an item delimiter closes, a sequence delimiter closing the sequence
UndefinedLengthSequenceInput ==
    /\ Len(source) >= 4
    /\ source[1].k = "H"
    /\ source[1].vr = "SQ"
    /\ source[1].len = UNDEFINED_LEN
    /\ source[2].k = "H"
    /\ source[2].tag = ItemTag
    /\ source[2].len = UNDEFINED_LEN
    /\ source[Len(source) - 1].k = "H"
    /\ source[Len(source) - 1].tag = ItemDelimiterTag
    /\ source[Len(source) - 1].vr # "SQ"
    /\ source[Len(source) - 1].len = U32(0)
    /\ source[Len(source)].k = "H"
    /\ source[Len(source)].tag = SequenceDelimiterTag
    /\ WellFormedPrimitives(SubSeq(source, 3, Len(source) - 2))

\* C8: for an undefined-length sequence whose one undefined-length item is
\* closed by an item delimiter and which a sequence delimiter closes, the
\* reader emits SequenceStart and ItemStart of undefined length, the tokens
\* of the interior elements, ItemEnd, SequenceEnd, and depth is 0 again
\* after SequenceEnd.
C8_UndefinedLengthTokens ==
    UndefinedLengthSequenceInput =>
        /\ NoFailure
        /\ (history # <<>> /\ IsTok(Len(history), "SequenceEnd")) =>
            depth = U32(0)
        /\ Ended =>
            LET n == Len(Tokens) IN
            /\ n >= 4
            /\ Tokens[1] = SequenceStart(source[1].tag, UNDEFINED_LEN)
            /\ Tokens[2] = ItemStart(UNDEFINED_LEN)
            /\ \A k \in 3..(n - 2) :
                Tokens[k].t = IF k % 2 = 1 THEN "ElementHeader"
                              ELSE "PrimitiveValue"
            /\ Tokens[n - 1] = ItemEnd
            /\ Tokens[n] = SequenceEnd
            /\ depth = U32(0)

\* such an input with an element inside the item, read to its end
C8_Witness ==
    /\ UndefinedLengthSequenceInput
    /\ Ended
    /\ Len(Tokens) = 6
    /\ pos = Len(source)

\* C9: when the stream starts with (0008,0005), VR CS, length 10, value
\* "ISO_IR 192", set_character_set has been called with the ISO IR 192
\* character set, and UTF-8 is the active codec, when the value of the
\* (0010,0010) element that follows is about to be read.
C9_Utf8BeforeName ==
    (/\ Len(source) > 11
     /\ source[1] = H(CharacterSetTag, "CS", U32(10))
     /\ SubSeq(source, 2, 11) = Bytes(Str_ISO_IR_space_192)
     /\ State = "S1"
     /\ unwrap(last_header).tag = PatientNameTag) =>
        /\ charset = "IsoIr192"
        /\ \E i \in Calls : \E k \in 1..Len(history[i].ops) :
            /\ history[i].ops[k].op = "set_character_set"
            /\ history[i].ops[k].charset = "IsoIr192"

\* C10: the source being finite and every header decode consuming at least
\* one cell, a consumer that keeps calling next() is eventually returned
\* end-of-stream.
C10_Terminates == <>Ended

\* end-of-stream after at least four tokens, the source read to its end
C10_Witness ==
    /\ Ended
    /\ Len(Tokens) >= 4
    /\ pos = Len(source)

(***************************************************************************)
(* LazyDataSetReader (data/dataset.rs).  The reader has the fields source, *)
(* parser, depth, in_sequence and hard_break; last_header stays None.      *)
(***************************************************************************)
\* Header::tag of a SequenceItemHeader
SequenceItemHeader_tag(h) ==
    IF h.kind = "Item" THEN ItemTag
    ELSE IF h.kind = "ItemDelimiter" THEN ItemDelimiterTag
    ELSE SequenceDelimiterTag

\* Header::len of a SequenceItemHeader
SequenceItemHeader_len(h) ==
    IF h.kind = "Item" THEN h.len ELSE U32(0)

DataElementHeader_from_KeepVr(h) ==
    DataElementHeader(SequenceItemHeader_tag(h), "SQ",
                      SequenceItemHeader_len(h))

\* From<SequenceItemHeader> for DataElementHeader
DataElementHeader_from(h) ==
    DataElementHeader(SequenceItemHeader_tag(h), "UN",
                      SequenceItemHeader_len(h))

DicomElementMarker(header, p) == [header |-> header, pos |-> p]

RetMarker(m) == [kind |-> "Ok", marker |-> m]

\* get_position: source.seek(SeekFrom::Current(0)) on a source at offset p
get_position(seek_ok, p) == IF seek_ok THEN Ok(p) ELSE Err("Io")

OpSeek(r) == [op |-> "seek", res |-> r]

create_element_marker_NoBreak(header, position) ==
    IF position.ok THEN
        [hard_break |-> FALSE,
         ret |-> RetMarker(DicomElementMarker(header, position.value))]
    ELSE [hard_break |-> FALSE, ret |-> RetErr(position.err)]

\* create_element_marker, given the result of get_position
create_element_marker(header, position) ==
    IF position.ok THEN
        [hard_break |-> FALSE,
         ret |-> RetMarker(DicomElementMarker(header, position.value))]
    ELSE [hard_break |-> TRUE, ret |-> RetErr(position.err)]

\* create_item_marker, given the result of get_position
create_item_marker(header, position) ==
    IF position.ok THEN
        [hard_break |-> FALSE,
         ret |-> RetMarker(DicomElementMarker(DataElementHeader_from(header),
                                              position.value))]
    ELSE [hard_break |-> TRUE, ret |-> RetErr(position.err)]

\* LazyDataSetReader::next, in_sequence: the match on a decoded item header
lazy_on_item_header(header, d) ==
    IF header.kind = "Item" THEN
        [in_sequence |-> FALSE, depth |-> d, overflow |-> FALSE]
    ELSE IF header.kind = "ItemDelimiter" THEN
        [in_sequence |-> TRUE, depth |-> d, overflow |-> FALSE]
    ELSE
        [in_sequence |-> FALSE, depth |-> U32Dec(d).value,
         overflow |-> U32Dec(d).overflow]

\* LazyDataSetReader::next, otherwise: the match on a decoded element header
lazy_on_header(header, d) ==
    IF header.tag = CharacterSetTag THEN
        [in_sequence |-> FALSE, depth |-> d, overflow |-> FALSE]
    ELSE IF header.vr = "SQ" THEN
        [in_sequence |-> TRUE, depth |-> U32Inc(d).value,
         overflow |-> U32Inc(d).overflow]
    ELSE
        [in_sequence |-> FALSE, depth |-> d, overflow |-> FALSE]

lazy_on_err_EofEnds(e) ==
    IF e = "UnexpectedEof" THEN [hard_break |-> TRUE, ret |-> RetNone]
    ELSE [hard_break |-> TRUE, ret |-> RetErr(e)]

\* LazyDataSetReader::next: a failed header or item header decode
lazy_on_err(e) == [hard_break |-> TRUE, ret |-> RetErr(e)]

\* LazyDataSetReader::new, new_with
LazyInit ==
    /\ source \in Sources
    /\ pos = 0
    /\ charset \in CharacterSets
    /\ depth = U32(0)
    /\ in_sequence = FALSE
    /\ hard_break = FALSE
    /\ last_header = None
    /\ overflow_checks \in BOOLEAN
    /\ panicked = FALSE
    /\ history = <<>>
    /\ fused_calls = 0
    /\ calc = Idle

\* LazyDataSetReader::next: the fuse
LazyNext_HardBreak ==
    /\ hard_break
    /\ fused_calls < MaxFusedCalls
    /\ fused_calls' = fused_calls + 1
    /\ Returns(<<>>, RetNone)
    /\ UNCHANGED <<source, pos, charset, depth, in_sequence, hard_break,
                   last_header, overflow_checks, panicked, calc>>

LazyNext_InSequence ==
    /\ CanCall
    /\ ~hard_break
    /\ in_sequence
    /\ \E seek_ok \in BOOLEAN :
        LET r == decode_item_header(source, pos) IN
        IF r.ok THEN
            LET o == lazy_on_item_header(r.value, depth)
                position == get_position(seek_ok, pos + HeaderSize)
                m == create_item_marker(r.value, position)
            IN
            /\ pos' = pos + HeaderSize
            /\ IF o.overflow /\ overflow_checks THEN
                    \* depth -= 1 panics before anything else is assigned
                    /\ Panics(<<OpDecodeItemHeader(r)>>)
                    /\ UNCHANGED <<depth, in_sequence, hard_break>>
               ELSE
                    /\ depth' = o.depth
                    /\ in_sequence' = o.in_sequence
                    /\ hard_break' = m.hard_break
                    /\ Returns(<<OpDecodeItemHeader(r), OpSeek(position)>>,
                               m.ret)
                    /\ UNCHANGED panicked
        ELSE
            LET o == lazy_on_err(r.err) IN
            /\ hard_break' = o.hard_break
            /\ Returns(<<OpDecodeItemHeader(r)>>, o.ret)
            /\ UNCHANGED <<pos, depth, in_sequence, panicked>>
    /\ UNCHANGED <<source, charset, last_header, overflow_checks, fused_calls,
                   calc>>

LazyNext_DecodeHeader ==
    /\ CanCall
    /\ ~hard_break
    /\ ~in_sequence
    /\ \E seek_ok \in BOOLEAN :
        LET r == decode_header(source, pos) IN
        IF r.ok THEN
            LET o == lazy_on_header(r.value, depth)
                position == get_position(seek_ok, pos + HeaderSize)
                m == create_element_marker(r.value, position)
            IN
            /\ pos' = pos + HeaderSize
            /\ IF o.overflow /\ overflow_checks THEN
                    \* in_sequence is assigned before depth += 1 panics
                    /\ in_sequence' = o.in_sequence
                    /\ Panics(<<OpDecodeHeader(r)>>)
                    /\ UNCHANGED <<depth, hard_break>>
               ELSE
                    /\ in_sequence' = o.in_sequence
                    /\ depth' = o.depth
                    /\ hard_break' = m.hard_break
                    /\ Returns(<<OpDecodeHeader(r), OpSeek(position)>>, m.ret)
                    /\ UNCHANGED panicked
        ELSE
            LET o == lazy_on_err(r.err) IN
            /\ hard_break' = o.hard_break
            /\ Returns(<<OpDecodeHeader(r)>>, o.ret)
            /\ UNCHANGED <<pos, depth, in_sequence, panicked>>
    /\ UNCHANGED <<source, charset, last_header, overflow_checks, fused_calls,
                   calc>>

\* one call of LazyDataSetReader::next
LazyNext ==
    \/ LazyNext_HardBreak
    \/ LazyNext_InSequence
    \/ LazyNext_DecodeHeader

LazySpec == LazyInit /\ [][LazyNext]_vars

\* call i returned a marker
IsMarker(i) == history[i].ret.kind = "Ok"

\* the last call was made with no sequence open and returned the marker of
\* an element that is not a sequence and has a defined length
AfterElementMarker ==
    /\ Len(history) > 0
    /\ LET c == history[Len(history)] IN
        /\ c.state = "S0"
        /\ c.ret.kind = "Ok"
        /\ c.ret.marker.header.vr # "SQ"
        /\ ~Length_is_undefined(c.ret.marker.header.len)

\* C11: after the lazy reader has emitted the marker of a non-sequence
\* element of defined length len, the source stands len bytes past the start
\* of the value, which is where the marker's pos points.
C11_ValueSkipped ==
    AfterElementMarker =>
        LET m == history[Len(history)].ret.marker IN
        /\ m.header.len[1] = 0
        /\ pos = m.pos + m.header.len[2]

\* C12: once a call of the lazy reader's next() has returned an error, from
\* the header decode, the item header decode or the position query, every
\* later call returns end-of-stream and hard_break stays set.
C12_LazyFused ==
    /\ \A i \in Calls : \A j \in Calls : (i < j /\ IsErr(i)) => IsEnd(j)
    /\ (\E i \in Calls : IsErr(i)) => hard_break

\* the operation whose failure call i returned
FailedOp(i) == history[i].ops[Len(history[i].ops)].op

\* a marker, then a failed position query after a decoded element header,
\* then two more calls, with a decodable header left unread
C12_Witness ==
    /\ Len(history) >= 4
    /\ IsMarker(Len(history) - 3)
    /\ IsErr(Len(history) - 2)
    /\ FailedOp(Len(history) - 2) = "seek"
    /\ history[Len(history) - 2].state = "S0"
    /\ IsEnd(Len(history) - 1)
    /\ IsEnd(Len(history))
    /\ \E k \in (pos + 1)..Len(source) : source[k].k = "H"

\* the call that a step has just made
NewCall == history'[Len(history')]

\* C13: a successful call of the lazy reader's next() returns a marker whose
\* pos is the offset right after the header the call decoded; a marker built
\* from an item header carries the tag of that header, one of (FFFE,E000),
\* (FFFE,E00D), (FFFE,E0DD), VR UN, and the length of the item or length 0
\* for a delimiter; the call invokes neither read_value nor
\* set_character_set.
C13_Markers ==
    [][ Len(history') = Len(history) + 1 =>
          /\ \A k \in 1..Len(NewCall.ops) :
                NewCall.ops[k].op \in {"decode_header", "decode_item_header",
                                       "seek"}
          /\ charset' = charset
          /\ NewCall.ret.kind = "Ok" =>
                LET m == NewCall.ret.marker
                    cell == source[pos + 1]
                IN
                /\ m.pos = pos + HeaderSize
                /\ pos' = m.pos
                /\ m.header.tag = cell.tag
                /\ NewCall.state = "S0" =>
                      m.header = DataElementHeader(cell.tag, cell.vr, cell.len)
                /\ NewCall.state = "S2" =>
                      /\ m.header.tag \in {ItemTag, ItemDelimiterTag,
                                           SequenceDelimiterTag}
                      /\ m.header.vr = "UN"
                      /\ m.header.len =
                            IF cell.tag = ItemTag THEN cell.len ELSE U32(0)
      ]_vars

\* markers of an item of defined length 2, of an item delimiter, and of a
\* sequence delimiter whose length field in the source is 4
C13_Witness ==
    /\ \E i \in Calls :
        /\ IsMarker(i)
        /\ history[i].state = "S2"
        /\ history[i].ret.marker.header = DataElementHeader(ItemTag, "UN", U32(2))
        /\ history[i].ret.marker.pos = 5
    /\ \E i \in Calls :
        /\ IsMarker(i)
        /\ history[i].state = "S2"
        /\ history[i].ops[1].res.value = SequenceDelimiter
        /\ source[history[i].ret.marker.pos].len = U32(4)
        /\ history[i].ret.marker.header =
              DataElementHeader(SequenceDelimiterTag, "UN", U32(0))
    /\ \E i \in Calls :
        /\ IsMarker(i)
        /\ history[i].state = "S2"
        /\ history[i].ret.marker.header =
              DataElementHeader(ItemDelimiterTag, "UN", U32(0))

(***************************************************************************)
(* Length arithmetic and ordering (data/mod.rs).  An i32 is kept as its    *)
(* two's complement bit pattern on two limbs, so that the casts `as i32`   *)
(* and `as u32` leave the limbs as they are.                               *)
(***************************************************************************)
\* u32 + u32 and u32 - u32: the wrapped value and whether the exact result
\* left the range of u32
U32Add(a, b) ==
    LET lo == a[2] + b[2]
        hi == a[1] + b[1] + (lo \div Limb)
    IN  [value |-> <<hi % Limb, lo % Limb>>, overflow |-> hi >= Limb]

U32Sub(a, b) ==
    LET lo == a[2] - b[2]
        hi == IF lo < 0 THEN a[1] - b[1] - 1 ELSE a[1] - b[1]
    IN  [value |-> <<hi % Limb, lo % Limb>>, overflow |-> hi < 0]

\* the sign bit of an i32
IsNegative(a) == a[1] >= Limb \div 2

\* i32 + i32 and i32 - i32: the wrapped value and whether the exact result
\* left the range of i32
I32Add(a, b) ==
    LET w == U32Add(a, b).value IN
    [value |-> w,
     overflow |-> IsNegative(a) = IsNegative(b) /\ IsNegative(w) # IsNegative(a)]

I32Sub(a, b) ==
    LET w == U32Sub(a, b).value IN
    [value |-> w,
     overflow |-> IsNegative(a) # IsNegative(b) /\ IsNegative(w) # IsNegative(a)]

\* u32::cmp
U32Cmp(a, b) ==
    IF a[1] < b[1] \/ (a[1] = b[1] /\ a[2] < b[2]) THEN "Less"
    ELSE IF a = b THEN "Equal"
    ELSE "Greater"

Length_partial_cmp_UndefinedLast(l1, l2) == Some(U32Cmp(l1, l2))

\* PartialOrd for Length
Length_partial_cmp(l1, l2) ==
    IF l1 = UNDEFINED_LEN \/ l2 = UNDEFINED_LEN THEN None
    ELSE Some(U32Cmp(l1, l2))

\* the operators <, <=, >, >= that PartialOrd derives from partial_cmp
Length_lt(l1, l2) == Length_partial_cmp(l1, l2) = Some("Less")
Length_le(l1, l2) == Length_partial_cmp(l1, l2) \in {Some("Less"), Some("Equal")}
Length_gt(l1, l2) == Length_partial_cmp(l1, l2) = Some("Greater")
Length_ge(l1, l2) ==
    Length_partial_cmp(l1, l2) \in {Some("Greater"), Some("Equal")}

\* the outcome of an operator call: the Length returned, or a panic
Returned(l) == [panic |-> FALSE, value |-> l]
Panicked == [panic |-> TRUE, value |-> <<>>]

\* Length(o) after debug_assert!(o != UNDEFINED_LEN), where o comes from an
\* arithmetic operation that panics on overflow when overflow checks are on
checked(o, oc, da) ==
    IF o.overflow /\ oc THEN Panicked
    ELSE IF da /\ o.value = UNDEFINED_LEN THEN Panicked
    ELSE Returned(o.value)

Length_add_NoAssert(l1, l2, oc, da) ==
    IF l1 = UNDEFINED_LEN \/ l2 = UNDEFINED_LEN THEN Returned(Length_undefined)
    ELSE checked(U32Add(l1, l2), oc, FALSE)

\* Add<Length> for Length, built with overflow checks oc and debug
\* assertions da
Length_add(l1, l2, oc, da) ==
    IF l1 = UNDEFINED_LEN \/ l2 = UNDEFINED_LEN THEN Returned(Length_undefined)
    ELSE checked(U32Add(l1, l2), oc, da)

\* Add<i32> for Length
Length_add_i32(l, rhs, oc, da) ==
    IF l = UNDEFINED_LEN THEN Returned(Length_undefined)
    ELSE checked(I32Add(l, rhs), oc, da)

Length_sub_FirstOnly(l1, l2, oc, da) ==
    IF l1 = UNDEFINED_LEN THEN Returned(Length_undefined)
    ELSE checked(U32Sub(l1, l2), oc, da)

\* Sub<Length> for Length
Length_sub(l1, l2, oc, da) ==
    IF l1 = UNDEFINED_LEN \/ l2 = UNDEFINED_LEN THEN Returned(Length_undefined)
    ELSE checked(U32Sub(l1, l2), oc, da)

\* Sub<i32> for Length
Length_sub_i32(l, rhs, oc, da) ==
    IF l = UNDEFINED_LEN THEN Returned(Length_undefined)
    ELSE checked(I32Sub(l, rhs), oc, da)

\* Length::get
Length_get(l) == IF l = UNDEFINED_LEN THEN None ELSE Some(l)

\* u32 as u64
as_u64(a) == a[1] * Limb + a[2]

\* SeekInterval::new_at(source, range): seeks to range.start and covers the
\* offsets from range.start up to range.end, range.end excluded
SeekInterval_new_at(seek_ok, range) ==
    IF seek_ok THEN Ok([begin |-> range.start, end |-> range.end])
    ELSE Err("Io")

\* DicomElementMarker::get_data_stream
get_data_stream(marker, seek_ok) ==
    IF ~is_some(Length_get(marker.header.len))
        THEN Err("UnresolvedValueLength")
    ELSE LET len == as_u64(unwrap(Length_get(marker.header.len))) IN
        SeekInterval_new_at(seek_ok, [start |-> marker.pos, end |-> len])

(***************************************************************************)
(* VR (data/mod.rs).  A variant is named by a string, a &str is the     *)
(* sequence of its characters, a [u8; 2] is a pair of byte values.         *)
(***************************************************************************)
VRs == {
    "AE", "AS", "AT", "CS", "DA", "DS", "DT", "FL", "FD", "IS", "LO", "LT",
    "OB", "OD", "OF", "OL", "OW", "PN", "SH", "SL", "SQ", "SS", "ST", "TM",
    "UC", "UI", "UL", "UN", "UR", "US", "UT" }

UpperCase == <<
    "A", "B", "C", "D", "E", "F", "G", "H", "I", "J", "K", "L", "M", "N",
    "O", "P", "Q", "R", "S", "T", "U", "V", "W", "X", "Y", "Z" >>

LowerCase == <<
    "a", "b", "c", "d", "e", "f", "g", "h", "i", "j", "k", "l", "m", "n",
    "o", "p", "q", "r", "s", "t", "u", "v", "w", "x", "y", "z" >>

\* the character that an ASCII byte encodes
Char(b) ==
    CASE b \in 65..90 -> UpperCase[b - 64]
      [] b \in 97..122 -> LowerCase[b - 96]
      [] b = 32 -> " "
      [] b = 64 -> "@"
      [] b = 91 -> "["
      [] b = 127 -> "x7F"
      [] OTHER -> "x00"

\* str::as_bytes on ASCII text
as_bytes(str) ==
    [i \in 1..Len(str) |-> CHOOSE b \in 1..127 : Char(b) = str[i]]

\* std::str::from_utf8 on two bytes: two ASCII characters, or one character
\* encoded on two bytes, or an error
from_utf8(chars) ==
    IF chars[1] < 128 /\ chars[2] < 128
        THEN Ok(<<Char(chars[1]), Char(chars[2])>>)
    ELSE IF chars[1] \in 194..223 /\ chars[2] \in 128..191
        THEN Ok(<<"nonascii">>)
    ELSE Err("Utf8Error")

\* the upper case of a character
to_uppercase(c) ==
    IF \E i \in 1..Len(LowerCase) : LowerCase[i] = c
        THEN UpperCase[CHOOSE i \in 1..Len(LowerCase) : LowerCase[i] = c]
    ELSE c

\* the arms of the match of VR::from_str
VR_from_str_arms(str) ==
    CASE str = <<"A", "E">> -> Some("AE")
      [] str = <<"A", "S">> -> Some("AS")
      [] str = <<"A", "T">> -> Some("AT")
      [] str = <<"C", "S">> -> Some("CS")
      [] str = <<"D", "A">> -> Some("DA")
      [] str = <<"D", "S">> -> Some("DS")
      [] str = <<"D", "T">> -> Some("DT")
      [] str = <<"F", "L">> -> Some("FL")
      [] str = <<"F", "D">> -> Some("FD")
      [] str = <<"I", "S">> -> Some("IS")
      [] str = <<"L", "O">> -> Some("LO")
      [] str = <<"L", "T">> -> Some("LT")
      [] str = <<"O", "B">> -> Some("OB")
      [] str = <<"O", "D">> -> Some("OD")
      [] str = <<"O", "F">> -> Some("OF")
      [] str = <<"O", "L">> -> Some("OL")
      [] str = <<"O", "W">> -> Some("OW")
      [] str = <<"P", "N">> -> Some("PN")
      [] str = <<"S", "H">> -> Some("SH")
      [] str = <<"S", "L">> -> Some("SL")
      [] str = <<"S", "Q">> -> Some("SQ")
      [] str = <<"S", "S">> -> Some("SS")
      [] str = <<"S", "T">> -> Some("ST")
      [] str = <<"T", "M">> -> Some("TM")
      [] str = <<"U", "C">> -> Some("UC")
      [] str = <<"U", "I">> -> Some("UI")
      [] str = <<"U", "L">> -> Some("UL")
      [] str = <<"U", "N">> -> Some("UN")
      [] str = <<"U", "R">> -> Some("UR")
      [] str = <<"U", "S">> -> Some("US")
      [] str = <<"U", "T">> -> Some("UT")
      [] OTHER -> None

VR_from_str_IgnoreCase(str) ==
    VR_from_str_arms([i \in 1..Len(str) |-> to_uppercase(str[i])])

\* VR::from_str
VR_from_str(str) == VR_from_str_arms(str)

\* VR::from_binary
VR_from_binary(chars) ==
    IF from_utf8(chars).ok THEN VR_from_str(from_utf8(chars).value) ELSE None

\* VR::to_string
VR_to_string(vr) ==
    CASE vr = "AE" -> <<"A", "E">>
      [] vr = "AS" -> <<"A", "S">>
      [] vr = "AT" -> <<"A", "T">>
      [] vr = "CS" -> <<"C", "S">>
      [] vr = "DA" -> <<"D", "A">>
      [] vr = "DS" -> <<"D", "S">>
      [] vr = "DT" -> <<"D", "T">>
      [] vr = "FL" -> <<"F", "L">>
      [] vr = "FD" -> <<"F", "D">>
      [] vr = "IS" -> <<"I", "S">>
      [] vr = "LO" -> <<"L", "O">>
      [] vr = "LT" -> <<"L", "T">>
      [] vr = "OB" -> <<"O", "B">>
      [] vr = "OD" -> <<"O", "D">>
      [] vr = "OF" -> <<"O", "F">>
      [] vr = "OL" -> <<"O", "L">>
      [] vr = "OW" -> <<"O", "W">>
      [] vr = "PN" -> <<"P", "N">>
      [] vr = "SH" -> <<"S", "H">>
      [] vr = "SL" -> <<"S", "L">>
      [] vr = "SQ" -> <<"S", "Q">>
      [] vr = "SS" -> <<"S", "S">>
      [] vr = "ST" -> <<"S", "T">>
      [] vr = "TM" -> <<"T", "M">>
      [] vr = "UC" -> <<"U", "C">>
      [] vr = "UI" -> <<"U", "I">>
      [] vr = "UL" -> <<"U", "L">>
      [] vr = "UN" -> <<"U", "N">>
      [] vr = "UR" -> <<"U", "R">>
      [] vr = "US" -> <<"U", "S">>
      [] vr = "UT" -> <<"U", "T">>

\* VR::to_bytes
VR_to_bytes(vr) ==
    <<as_bytes(VR_to_string(vr))[1], as_bytes(VR_to_string(vr))[2]>>

(***************************************************************************)
(* Calls of the functions of the data model on their own.                  *)
(***************************************************************************)
\* limb values within Near of the ends of a limb
LimbEdge == (0..Near) \cup ((Limb - 1 - Near)..(Limb - 1))

\* lengths within Near of 0, 2^16, 2^31 and 2^32 - 1 (the last is undefined)
Lengths ==
    {<<h, l>> : h \in {0, 1, Limb \div 2 - 1, Limb \div 2, Limb - 1},
                l \in LimbEdge}

\* signed deltas, as bit patterns: within Near of 0, -1, i32::MAX, i32::MIN
Deltas == Lengths

Tags == {ItemTag, ItemDelimiterTag, SequenceDelimiterTag, PatientNameTag,
         CharacterSetTag, Tag(65534, 0)}

\* markers of an element at the offsets of a source of the model
Markers ==
    {DicomElementMarker(DataElementHeader(PatientNameTag, "PN", len), p) :
        len \in {U32(n) : n \in 0..MaxSourceLen} \cup {UNDEFINED_LEN},
        p \in 0..MaxSourceLen}

\* no reader is at work
CalcInit ==
    /\ source = <<>>
    /\ pos = 0
    /\ charset = "Default"
    /\ depth = U32(0)
    /\ in_sequence = FALSE
    /\ hard_break = FALSE
    /\ last_header = None
    /\ overflow_checks \in BOOLEAN
    /\ panicked = FALSE
    /\ history = <<>>
    /\ fused_calls = 0
    /\ calc = Idle

readerVars == <<source, pos, charset, depth, in_sequence, hard_break,
                last_header, overflow_checks, panicked, history, fused_calls>>

\* a == b, a != b, a < b, a <= b, a > b, a >= b
Call_Length_compare ==
    /\ calc = Idle
    /\ \E a \in Lengths, b \in Lengths :
        calc' = [fn |-> "compare", a |-> a, b |-> b,
                 eq |-> Length_eq(a, b), ne |-> Length_ne(a, b),
                 lt |-> Length_lt(a, b), le |-> Length_le(a, b),
                 gt |-> Length_gt(a, b), ge |-> Length_ge(a, b)]
    /\ UNCHANGED readerVars

\* a + b
Call_Length_add ==
    /\ calc = Idle
    /\ \E a \in Lengths, b \in Lengths, da \in BOOLEAN :
        calc' = [fn |-> "add", a |-> a, b |-> b, debug_assertions |-> da,
                 res |-> Length_add(a, b, overflow_checks, da)]
    /\ UNCHANGED readerVars

\* a - b
Call_Length_sub ==
    /\ calc = Idle
    /\ \E a \in Lengths, b \in Lengths, da \in BOOLEAN :
        calc' = [fn |-> "sub", a |-> a, b |-> b, debug_assertions |-> da,
                 res |-> Length_sub(a, b, overflow_checks, da)]
    /\ UNCHANGED readerVars

\* a + d for a signed delta d
Call_Length_add_i32 ==
    /\ calc = Idle
    /\ \E a \in Lengths, d \in Deltas, da \in BOOLEAN :
        calc' = [fn |-> "add_i32", a |-> a, d |-> d, debug_assertions |-> da,
                 res |-> Length_add_i32(a, d, overflow_checks, da)]
    /\ UNCHANGED readerVars

\* a - d for a signed delta d
Call_Length_sub_i32 ==
    /\ calc = Idle
    /\ \E a \in Lengths, d \in Deltas, da \in BOOLEAN :
        calc' = [fn |-> "sub_i32", a |-> a, d |-> d, debug_assertions |-> da,
                 res |-> Length_sub_i32(a, d, overflow_checks, da)]
    /\ UNCHANGED readerVars

Call_SequenceItemHeader_new ==
    /\ calc = Idle
    /\ \E tag \in Tags, len \in Lengths :
        calc' = [fn |-> "SequenceItemHeader_new", tag |-> tag, len |-> len,
                 res |-> SequenceItemHeader_new(tag, len)]
    /\ UNCHANGED readerVars

Call_get_data_stream ==
    /\ calc = Idle
    /\ \E marker \in Markers, seek_ok \in BOOLEAN :
        calc' = [fn |-> "get_data_stream", marker |-> marker,
                 seek_ok |-> seek_ok,
                 res |-> get_data_stream(marker, seek_ok)]
    /\ UNCHANGED readerVars

\* the two-byte inputs of from_binary: letters of both cases, other ASCII
\* bytes, and bytes that are not ASCII
ByteSamples == (65..90) \cup (97..122) \cup {0, 32, 64, 91, 127, 128, 169, 195, 255}

\* from_binary(vr.to_bytes()) and from_str(vr.to_string())
Call_VR_round_trip ==
    /\ calc = Idle
    /\ \E vr \in VRs :
        calc' = [fn |-> "VR_round_trip", vr |-> vr,
                 bytes |-> VR_to_bytes(vr), string |-> VR_to_string(vr),
                 from_binary |-> VR_from_binary(VR_to_bytes(vr)),
                 from_str |-> VR_from_str(VR_to_string(vr))]
    /\ UNCHANGED readerVars

Call_VR_from_binary ==
    /\ calc = Idle
    /\ \E b1 \in ByteSamples, b2 \in ByteSamples :
        calc' = [fn |-> "VR_from_binary", chars |-> <<b1, b2>>,
                 res |-> VR_from_binary(<<b1, b2>>)]
    /\ UNCHANGED readerVars

\* the headers fed to both readers
Headers == {
    DataElementHeader(PatientNameTag, "PN", U32(1)),
    DataElementHeader(CharacterSetTag, "CS", U32(1)),
    DataElementHeader(RequestAttributesTag, "SQ", UNDEFINED_LEN),
    DataElementHeader(ItemTag, "UN", UNDEFINED_LEN),
    DataElementHeader(ItemDelimiterTag, "UN", U32(0)),
    DataElementHeader(SequenceDelimiterTag, "UN", U32(0)) }

\* in_sequence and depth of a reader
ReaderState(inseq, d) == [in_sequence |-> inseq, depth |-> d]

\* DataSetReader::next on one header: as an item header when in_sequence, as
\* an element header otherwise (the value read that follows an ElementHeader
\* changes neither in_sequence nor depth); Err when the header does not
\* decode or the call panics
streaming_step(st, h, oc) ==
    IF st.in_sequence THEN
        LET r == SequenceItemHeader_new(h.tag, h.len) IN
        IF ~r.ok THEN Err("NotDecoded")
        ELSE LET o == on_item_header(r.value, st.depth) IN
            IF o.overflow /\ oc THEN Err("Panic")
            ELSE Ok(ReaderState(o.in_sequence, o.depth))
    ELSE
        LET o == on_header(h, st.depth) IN
        IF o.overflow /\ oc THEN Err("Panic")
        ELSE Ok(ReaderState(o.in_sequence, o.depth))

\* LazyDataSetReader::next on one header
lazy_step(st, h, oc) ==
    IF st.in_sequence THEN
        LET r == SequenceItemHeader_new(h.tag, h.len) IN
        IF ~r.ok THEN Err("NotDecoded")
        ELSE LET o == lazy_on_item_header(r.value, st.depth) IN
            IF o.overflow /\ oc THEN Err("Panic")
            ELSE Ok(ReaderState(o.in_sequence, o.depth))
    ELSE
        LET o == lazy_on_header(h, st.depth) IN
        IF o.overflow /\ oc THEN Err("Panic")
        ELSE Ok(ReaderState(o.in_sequence, o.depth))

\* the states of DataSetReader after each header of hs, up to the first
\* header that is not decoded
RECURSIVE streaming_run(_, _, _)
streaming_run(hs, st, oc) ==
    IF hs = <<>> \/ ~streaming_step(st, Head(hs), oc).ok THEN <<>>
    ELSE <<streaming_step(st, Head(hs), oc).value>>
            \o streaming_run(Tail(hs), streaming_step(st, Head(hs), oc).value, oc)

\* the states of LazyDataSetReader after each header of hs
RECURSIVE lazy_run(_, _, _)
lazy_run(hs, st, oc) ==
    IF hs = <<>> \/ ~lazy_step(st, Head(hs), oc).ok THEN <<>>
    ELSE <<lazy_step(st, Head(hs), oc).value>>
            \o lazy_run(Tail(hs), lazy_step(st, Head(hs), oc).value, oc)

\* both readers, new, fed the same headers
Call_readers ==
    /\ calc = Idle
    /\ \E hs \in Seqs(Headers, MaxHeaders) :
        calc' = [fn |-> "readers", headers |-> hs,
                 streaming |-> streaming_run(hs, ReaderState(FALSE, U32(0)),
                                             overflow_checks),
                 lazy |-> lazy_run(hs, ReaderState(FALSE, U32(0)),
                                   overflow_checks)]
    /\ UNCHANGED readerVars

\* PartialEq derived for DataElementHeader: field by field
DataElementHeader_eq(h1, h2) ==
    /\ h1.tag = h2.tag
    /\ h1.vr = h2.vr
    /\ Length_eq(h1.len, h2.len)

\* PartialEq derived for DicomElementMarker: field by field
DicomElementMarker_eq(m1, m2) ==
    /\ DataElementHeader_eq(m1.header, m2.header)
    /\ m1.pos = m2.pos

\* h1 == h2, and the markers of h1 at offset p1 and of h2 at offset p2
Call_header_eq ==
    /\ calc = Idle
    /\ \E h1 \in Headers, h2 \in Headers, p1 \in 0..1, p2 \in 0..1 :
        calc' = [fn |-> "header_eq", h1 |-> h1, h2 |-> h2,
                 p1 |-> p1, p2 |-> p2,
                 eq |-> DataElementHeader_eq(h1, h2),
                 marker_eq |->
                    DicomElementMarker_eq(DicomElementMarker(h1, p1),
                                          DicomElementMarker(h2, p2))]
    /\ UNCHANGED readerVars

\* the bits of a byte, lowest first
Bits(n) == [i \in 1..8 |-> (n \div (2 ^ (i - 1))) % 2]

\* a & b and a >> n on u8
BitAnd(a, b) ==
    LET and == [i \in 1..8 |-> Bits(a)[i] * Bits(b)[i]] IN
    and[1] + 2 * and[2] + 4 * and[3] + 8 * and[4] + 16 * and[5]
        + 32 * and[6] + 64 * and[7] + 128 * and[8]

Shr(a, n) == a \div (2 ^ n)

\* (b as char) for the bytes of the digits '0' to '7'
DigitChar(b) == <<"0", "1", "2", "3", "4", "5", "6", "7">>[b - 47]

decode_text_trap_LowToHigh(c, output) ==
    LET o0 == BitAnd(c, 7)
        o1 == Shr(BitAnd(c, 56), 3)
        o2 == Shr(BitAnd(c, 192), 6)
    IN  [output |-> output \o <<"\\", DigitChar(o0 + 48), DigitChar(o1 + 48),
                                DigitChar(o2 + 48)>>,
         handled |-> TRUE]

\* decode_text_trap on input[0] = c: what it writes to output and returns
decode_text_trap(c, output) ==
    LET o0 == BitAnd(c, 7)
        o1 == Shr(BitAnd(c, 56), 3)
        o2 == Shr(BitAnd(c, 192), 6)
    IN  [output |-> output \o <<"\\", DigitChar(o2 + 48), DigitChar(o1 + 48),
                                DigitChar(o0 + 48)>>,
         handled |-> TRUE]

Call_decode_text_trap ==
    /\ calc = Idle
    /\ \E c \in 0..255, output \in {<<>>, <<"A">>, <<"A", "\\">>} :
        calc' = [fn |-> "decode_text_trap", c |-> c, output |-> output,
                 res |-> decode_text_trap(c, output)]
    /\ UNCHANGED readerVars

CalcNext ==
    \/ Call_Length_compare
    \/ Call_Length_add
    \/ Call_Length_sub
    \/ Call_Length_add_i32
    \/ Call_Length_sub_i32
    \/ Call_SequenceItemHeader_new
    \/ Call_get_data_stream
    \/ Call_VR_round_trip
    \/ Call_VR_from_binary
    \/ Call_readers
    \/ Call_header_eq
    \/ Call_decode_text_trap

CalcSpec == CalcInit /\ [][CalcNext]_vars

\* the offsets that an interval covers
Covered(interval) == interval.begin..(interval.end - 1)

\* C14: get_data_stream on a marker of defined length len returns an
\* interval covering exactly the offsets pos .. pos + len - 1, for every pos;
\* on a marker of undefined length it fails with UnresolvedValueLength.
C14_DataStream ==
    calc.fn = "get_data_stream" =>
        LET m == calc.marker IN
        IF Length_is_undefined(m.header.len)
            THEN calc.res = Err("UnresolvedValueLength")
        ELSE calc.res.ok =>
            Covered(calc.res.value) = m.pos..(m.pos + m.header.len[2] - 1)

\* a length, taken as an integer, is below another
Below(a, b) == a[1] < b[1] \/ (a[1] = b[1] /\ a[2] < b[2])

\* C15: when a or b is undefined, a == b, a < b, a > b, a <= b and a >= b
\* are all false and a != b is true; when both are defined each comparison
\* is the comparison of the integer values.
C15_Comparisons ==
    calc.fn = "compare" =>
        IF Length_is_undefined(calc.a) \/ Length_is_undefined(calc.b) THEN
            /\ ~calc.eq /\ ~calc.lt /\ ~calc.gt /\ ~calc.le /\ ~calc.ge
            /\ calc.ne
        ELSE
            /\ calc.eq = (calc.a = calc.b)
            /\ calc.ne = (calc.a # calc.b)
            /\ calc.lt = Below(calc.a, calc.b)
            /\ calc.gt = Below(calc.b, calc.a)
            /\ calc.le = ~Below(calc.b, calc.a)
            /\ calc.ge = ~Below(calc.a, calc.b)

\* undefined compared with undefined
C15_Witness ==
    /\ calc.fn = "compare"
    /\ calc.a = UNDEFINED_LEN
    /\ calc.b = UNDEFINED_LEN
    /\ calc.ne

\* C16: an addition or subtraction with an undefined operand on either side,
\* of a length or of a signed delta, returns the undefined length and does
\* not panic, in every build.
C16_UndefinedAbsorbs ==
    /\ (/\ calc.fn \in {"add", "sub"}
        /\ Length_is_undefined(calc.a) \/ Length_is_undefined(calc.b)) =>
            calc.res = Returned(UNDEFINED_LEN)
    /\ (calc.fn \in {"add_i32", "sub_i32"}
            /\ Length_is_undefined(calc.a)) =>
                calc.res = Returned(UNDEFINED_LEN)

\* 0 - undefined in a build with overflow checks and debug assertions
C16_Witness ==
    /\ calc.fn = "sub"
    /\ calc.a = U32(0)
    /\ calc.b = UNDEFINED_LEN
    /\ overflow_checks
    /\ calc.debug_assertions
    /\ calc.res = Returned(UNDEFINED_LEN)

\* the exact sum of two u32, as carry and two limbs
ExactSum(a, b) ==
    LET lo == a[2] + b[2]
        hi == a[1] + b[1] + (lo \div Limb)
    IN  <<hi \div Limb, hi % Limb, lo % Limb>>

\* a debug build: overflow checks and debug assertions are on
DebugBuild == overflow_checks /\ calc.debug_assertions

\* C17: for defined a and b, a + b is the defined length of the exact sum
\* when that sum is below 0xFFFF_FFFF, and a debug build panics when it is
\* 0xFFFF_FFFF or more, so that it never returns the undefined length;
\* a - b is the defined length of the difference when a >= b, and a debug
\* build panics when a < b.
C17_DefinedArithmetic ==
    /\ (calc.fn = "add" /\ ~Length_is_undefined(calc.a)
                        /\ ~Length_is_undefined(calc.b)) =>
        LET sum == ExactSum(calc.a, calc.b) IN
        IF sum[1] = 0 /\ <<sum[2], sum[3]>> # UNDEFINED_LEN
            THEN calc.res = Returned(<<sum[2], sum[3]>>)
        ELSE DebugBuild => calc.res.panic
    /\ (calc.fn = "sub" /\ ~Length_is_undefined(calc.a)
                        /\ ~Length_is_undefined(calc.b)) =>
        IF ~Below(calc.a, calc.b) THEN
            /\ ~calc.res.panic
            /\ calc.res.value # UNDEFINED_LEN
            /\ ExactSum(calc.res.value, calc.b) = <<0, calc.a[1], calc.a[2]>>
        ELSE DebugBuild => calc.res.panic

\* 0xFFFF_FFFE + 1 in a debug build
C17_Witness ==
    /\ calc.fn = "add"
    /\ calc.a = <<Limb - 1, Limb - 2>>
    /\ calc.b = U32(1)
    /\ DebugBuild
    /\ calc.res.panic

\* (a + b) mod 2^32 and (a - b) mod 2^32 on bit patterns
ModSum(a, b) == <<ExactSum(a, b)[2], ExactSum(a, b)[3]>>
ModDifference(a, b) ==
    ModSum(a, ModSum(<<Limb - 1 - b[1], Limb - 1 - b[2]>>, <<0, 1>>))

\* C18: for a defined length n and a signed delta d, n + d and n - d return
\* the defined length of value (n + d) mod 2^32, (n - d) mod 2^32 whenever
\* that value is not 0xFFFF_FFFF, and panic only when it is.
C18_DeltaWraps ==
    (calc.fn \in {"add_i32", "sub_i32"} /\ ~Length_is_undefined(calc.a)) =>
        LET v == IF calc.fn = "add_i32" THEN ModSum(calc.a, calc.d)
                 ELSE ModDifference(calc.a, calc.d)
        IN
        /\ v # UNDEFINED_LEN => calc.res = Returned(v)
        /\ calc.res.panic => v = UNDEFINED_LEN

\* C19: SequenceItemHeader::new returns Item{len} for (FFFE,E000) and every
\* len; for (FFFE,E00D) it returns ItemDelimiter when len is the defined
\* length 0 and fails with UnexpectedDataValueLength for every other len,
\* undefined included; for (FFFE,E0DD) it returns SequenceDelimiter for
\* every len; for any other tag it fails with UnexpectedElement.
C19_ItemHeaderNew ==
    calc.fn = "SequenceItemHeader_new" =>
        calc.res =
            CASE calc.tag = <<65534, 57344>> -> Ok(Item(calc.len))
              [] calc.tag = <<65534, 57357>> ->
                    IF calc.len = <<0, 0>> THEN Ok(ItemDelimiter)
                    ELSE Err("UnexpectedDataValueLength")
              [] calc.tag = <<65534, 57565>> -> Ok(SequenceDelimiter)
              [] OTHER -> Err("UnexpectedElement")

\* an item delimiter tag with the undefined length
C19_Witness ==
    /\ calc.fn = "SequenceItemHeader_new"
    /\ calc.tag = ItemDelimiterTag
    /\ calc.len = UNDEFINED_LEN
    /\ calc.res = Err("UnexpectedDataValueLength")

\* C20: SequenceItemHeader::new fails with UnexpectedDataValueLength for the
\* sequence delimiter tag (FFFE,E0DD) with a length other than 0, as it does
\* for the item delimiter tag.
C20_SequenceDelimiterLength ==
    (/\ calc.fn = "SequenceItemHeader_new"
     /\ calc.tag \in {ItemDelimiterTag, SequenceDelimiterTag}
     /\ calc.len # U32(0)) =>
        calc.res = Err("UnexpectedDataValueLength")

\* C21: from_binary(v.to_bytes()) = Some(v) and from_str(v.to_string()) =
\* Some(v) for every variant v; from_binary of two bytes is Some(v) only when
\* the bytes are the two upper-case letters of v's code, and None for every
\* other pair of bytes.
C21_VrRoundTrip ==
    /\ calc.fn = "VR_round_trip" =>
        /\ calc.from_binary = Some(calc.vr)
        /\ calc.from_str = Some(calc.vr)
    /\ calc.fn = "VR_from_binary" =>
        IF is_some(calc.res) THEN
            /\ unwrap(calc.res) \in VRs
            /\ VR_to_bytes(unwrap(calc.res)) = calc.chars
            /\ calc.chars[1] \in 65..90
            /\ calc.chars[2] \in 65..90
        ELSE \A vr \in VRs : VR_to_bytes(vr) # calc.chars

\* the bytes "sq" in lower case match no variant
C21_Witness ==
    /\ calc.fn = "VR_from_binary"
    /\ calc.chars = <<115, 113>>
    /\ calc.res = None

(***************************************************************************)
(* Claims about the states of DataSetReader.                               *)
(***************************************************************************)
\* C22: a reader on which next() was never called has depth 0, in_sequence
\* false, hard_break false and last_header None; in every reachable state
\* in_sequence and last_header.is_some() are not both true, so that a state
\* that is not terminal is S0, S1 (in_sequence false) or S2 (last_header
\* None).
C22_States ==
    /\ history = <<>> =>
        /\ depth = U32(0)
        /\ ~in_sequence
        /\ ~hard_break
        /\ last_header = None
    /\ ~(in_sequence /\ is_some(last_header))
    /\ State = "S1" => ~in_sequence
    /\ State = "S2" => last_header = None

\* calls were made in S0, S1 and S2, and the reader expects an item header
C22_Witness ==
    /\ \A st \in {"S0", "S1", "S2"} : \E i \in Calls : history[i].state = st
    /\ in_sequence
    /\ ~hard_break

\* the step is a call of next() made in state st
CallIn(st) == Len(history') = Len(history) + 1 /\ NewCall.state = st

\* the header or item header that the call of the step decoded, if any
Decoded ==
    IF Len(NewCall.ops) >= 1 /\ NewCall.ops[1].res.ok
          /\ NewCall.ops[1].op \in {"decode_header", "decode_item_header"}
        THEN Some(NewCall.ops[1].res.value)
    ELSE None

\* C23: a call in S0 that decodes a header with tag (FFFE,E00D) and a VR
\* other than SQ returns ItemEnd, leaves the reader expecting an item header
\* (S2) with no pending header, and leaves depth as it was, at every depth.
C23_ItemDelimiterInS0 ==
    [][ (/\ CallIn("S0")
         /\ is_some(Decoded)
         /\ unwrap(Decoded).tag = ItemDelimiterTag
         /\ unwrap(Decoded).vr # "SQ") =>
            /\ NewCall.ret = RetOk(ItemEnd)
            /\ Len(NewCall.ops) = 1
            /\ in_sequence'
            /\ ~hard_break'
            /\ last_header' = None
            /\ depth' = depth
      ]_vars

\* an item delimiter decoded in S0 at depth 0, then an item header decode
C23_Witness ==
    /\ Len(history) >= 2
    /\ history[1].state = "S0"
    /\ history[1].ret = RetOk(ItemEnd)
    /\ history[2].state = "S2"
    /\ history[2].ops[1].op = "decode_item_header"
    /\ depth = U32(0)

\* the state of the reader after the step
StateAfter == StateOf(hard_break', in_sequence', last_header')

\* C24: a call in S2 that decodes Item{len} returns ItemStart{len} and
\* leaves the reader in S0; one that decodes ItemDelimiter returns ItemEnd
\* and leaves it in S2; one that decodes SequenceDelimiter returns
\* SequenceEnd, leaves depth lower by exactly 1 and the reader in S0; one
\* whose decode fails returns the error and leaves the reader terminal with
\* depth as it was.
C24_S2Transitions ==
    [][ CallIn("S2") =>
          /\ Len(NewCall.ops) = 1
          /\ NewCall.ops[1].op = "decode_item_header"
          /\ IF ~is_some(Decoded) THEN
                /\ NewCall.ret = RetErr(NewCall.ops[1].res.err)
                /\ StateAfter = "Terminal"
                /\ depth' = depth
             ELSE IF unwrap(Decoded).kind = "Item" THEN
                /\ NewCall.ret = RetOk(ItemStart(unwrap(Decoded).len))
                /\ StateAfter = "S0"
                /\ depth' = depth
             ELSE IF unwrap(Decoded).kind = "ItemDelimiter" THEN
                /\ NewCall.ret = RetOk(ItemEnd)
                /\ StateAfter = "S2"
                /\ depth' = depth
             ELSE
                /\ NewCall.ret = RetOk(SequenceEnd)
                /\ StateAfter = "S0"
                /\ depth # U32(0)
                /\ U32Inc(depth').value = depth
      ]_vars

\* depth is the number of SequenceStart tokens minus that of SequenceEnd
DepthIsBalance ==
    /\ Count("SequenceEnd") <= Count("SequenceStart")
    /\ depth[1] = 0
    /\ depth[2] = Count("SequenceStart") - Count("SequenceEnd")

\* a step changes depth only by a call that returns SequenceStart or
\* SequenceEnd; a call in S0 that decodes a header of VR SQ returns
\* SequenceStart with the header's tag and length and raises depth by 1
DepthSteps ==
    /\ (/\ CallIn("S0")
        /\ is_some(Decoded)
        /\ unwrap(Decoded).vr = "SQ") =>
            /\ NewCall.ret =
                  RetOk(SequenceStart(unwrap(Decoded).tag, unwrap(Decoded).len))
            /\ depth' = U32Inc(depth).value
            /\ ~U32Inc(depth).overflow
    /\ depth' # depth =>
        /\ Len(history') = Len(history) + 1
        /\ NewCall.ret.kind = "Ok"
        /\ NewCall.ret.token.t \in {"SequenceStart", "SequenceEnd"}

\* C25: in every reachable state depth is the number of SequenceStart tokens
\* emitted minus the number of SequenceEnd tokens emitted; a VR SQ header
\* decoded in S0 emits SequenceStart{tag,len} and raises depth by exactly 1;
\* no other token, error or end-of-stream changes depth.
C25_DepthCounts == []DepthIsBalance /\ [][DepthSteps]_vars

\* C26: the parser's character set changes only in a call of next() made in
\* S1 that reads the value of a pending header with tag (0008,0005).
C26_CharsetFrame ==
    [][ charset' # charset =>
          /\ CallIn("S1")
          /\ NewCall.ops[1].op = "read_value"
          /\ NewCall.ops[1].res.ok
          /\ NewCall.ops[1].header.tag = CharacterSetTag
          /\ last_header = Some(NewCall.ops[1].header)
      ]_vars

\* the character set was switched by a value read, after calls in every
\* state that returned tokens, an error being among the later calls
C26_Witness ==
    /\ \E i \in Calls :
        /\ Len(history[i].ops) = 2
        /\ history[i].ops[2].op = "set_character_set"
        /\ history[i].ops[2].res.ok
        /\ history[i].ops[2].charset # history[i].ops[1].charset
        /\ charset = history[i].ops[2].charset
    /\ \E j \in Calls : IsTok(j, "PrimitiveValue")
                          /\ history[j].ops[1].header.tag = PatientNameTag
    /\ Ended

\* the read operations of the parser that call i invoked
Reads(i) ==
    SelectSeq(history[i].ops,
              LAMBDA o : o.op \in {"decode_header", "decode_item_header",
                                   "read_value"})

\* C27: a call of next() invokes no read operation of the parser when the
\* reader is terminal, and otherwise exactly one: decode_item_header in S2,
\* read_value in S1, decode_header in S0.
C27_OneRead ==
    \A i \in Calls :
        CASE history[i].state = "Terminal" -> history[i].ops = <<>>
          [] history[i].state = "S2" ->
                /\ Len(Reads(i)) = 1
                /\ Reads(i)[1].op = "decode_item_header"
          [] history[i].state = "S1" ->
                /\ Len(Reads(i)) = 1
                /\ Reads(i)[1].op = "read_value"
          [] history[i].state = "S0" ->
                /\ Len(Reads(i)) = 1
                /\ Reads(i)[1].op = "decode_header"

\* calls were made in S0, S1, S2 and in the terminal state
C27_Witness ==
    \A st \in {"S0", "S1", "S2", "Terminal"} :
        \E i \in Calls : history[i].state = st

\* C28: the reader never decrements depth at 0: whenever it expects an item
\* header, where a SequenceDelimiter can be accepted, depth is at least 1,
\* and the depth counter never underflows.
C28_NoUnderflow ==
    /\ (in_sequence /\ ~hard_break) => depth # U32(0)
    /\ ~panicked
    /\ \A i \in Calls :
        IsTok(i, "SequenceEnd") =>
            CountUpTo("SequenceEnd", i) <= CountUpTo("SequenceStart", i)

\* C29: fed the same headers, the lazy reader and the streaming reader have
\* the same in_sequence and depth after each header that both decoded; after
\* a header with tag (FFFE,E00D) and a VR other than SQ, decoded by the lazy
\* reader while it expected an element header, the lazy reader expects an
\* item header.
C29_SameStates ==
    calc.fn = "readers" =>
        /\ \A i \in 1..Len(calc.lazy) :
            i <= Len(calc.streaming) => calc.lazy[i] = calc.streaming[i]
        /\ \A i \in 1..Len(calc.lazy) :
            (/\ calc.headers[i].tag = ItemDelimiterTag
             /\ calc.headers[i].vr # "SQ"
             /\ (i = 1 \/ ~calc.lazy[i - 1].in_sequence)) =>
                calc.lazy[i].in_sequence

\* a header that next() does not hand out as an element header
NotAnElement(h) == h.vr = "SQ" \/ h.tag = ItemDelimiterTag

\* C30: no ElementHeader(h) token has h.vr = SQ or h.tag = (FFFE,E00D), and
\* last_header never holds such a header; a header with VR SQ and tag
\* (FFFE,E00D) decoded in S0 is emitted as SequenceStart.
C30_ElementHeaders ==
    /\ \A i \in Calls :
        IsTok(i, "ElementHeader") => ~NotAnElement(history[i].ret.token.h)
    /\ is_some(last_header) => ~NotAnElement(unwrap(last_header))
    /\ \A i \in Calls :
        (/\ history[i].state = "S0"
         /\ history[i].ops[1].res.ok
         /\ history[i].ops[1].res.value.vr = "SQ"
         /\ history[i].ops[1].res.value.tag = ItemDelimiterTag
         /\ history[i].ret.kind # "Panic") =>
            history[i].ret =
                RetOk(SequenceStart(ItemDelimiterTag,
                                    history[i].ops[1].res.value.len))

\* a VR SQ header with tag (FFFE,E00D) was emitted as SequenceStart, and an
\* element header is pending
C30_Witness ==
    /\ Len(history) >= 3
    /\ history[1].ret = RetOk(SequenceStart(ItemDelimiterTag, UNDEFINED_LEN))
    /\ IsTok(Len(history), "ElementHeader")
    /\ is_some(last_header)

(***************************************************************************)
(* Claims about the end of a lazy run, header equality and the decode trap.*)
(***************************************************************************)
\* the calls before call j that returned an error
ErrorsBefore(j) == {i \in 1..(j - 1) : IsErr(i)}

\* C31: the lazy reader's next() returns end-of-stream only after exactly
\* one earlier call has returned an error; an unexpected EOF met while an
\* element header is expected is returned as an error; once more calls have
\* been made than the source has cells, one of them has returned an error.
C31_LazyEndsByError ==
    /\ \A j \in Calls : IsEnd(j) => Cardinality(ErrorsBefore(j)) = 1
    /\ Cardinality({i \in Calls : IsErr(i)}) <= 1
    /\ \A i \in Calls :
        (/\ history[i].state = "S0"
         /\ history[i].ops[1].res = Err("UnexpectedEof")) =>
            history[i].ret = RetErr("UnexpectedEof")
    /\ Len(history) > Len(source) => \E i \in Calls : IsErr(i)

\* every cell of the source was decoded into a marker, the call after them
\* met the end of the source in S0 and returned an error, the next one ended
C31_Witness ==
    /\ Len(source) >= 2
    /\ Len(history) = Len(source) + 2
    /\ \A i \in 1..Len(source) : IsMarker(i)
    /\ history[Len(source) + 1].state = "S0"
    /\ history[Len(source) + 1].ret = RetErr("UnexpectedEof")
    /\ IsEnd(Len(source) + 2)

\* C32: two headers are equal exactly when they have the same tag, the same
\* VR and the same defined length, and two markers when their headers are
\* equal and their positions are the same; a header of undefined length is
\* equal to no header, itself included.
C32_HeaderEquality ==
    calc.fn = "header_eq" =>
        /\ calc.eq = (/\ calc.h1.tag = calc.h2.tag
                      /\ calc.h1.vr = calc.h2.vr
                      /\ calc.h1.len = calc.h2.len
                      /\ calc.h1.len # UNDEFINED_LEN)
        /\ calc.marker_eq = (calc.eq /\ calc.p1 = calc.p2)
        /\ (Length_is_undefined(calc.h1.len)
                \/ Length_is_undefined(calc.h2.len)) =>
              ~calc.eq /\ ~calc.marker_eq

\* a header of undefined length compared with itself, at the same position
C32_Witness ==
    /\ calc.fn = "header_eq"
    /\ calc.h1 = calc.h2
    /\ calc.p1 = calc.p2
    /\ calc.h1.len = UNDEFINED_LEN
    /\ ~calc.eq
    /\ ~calc.marker_eq

\* the character of an octal digit
OctalDigit(d) ==
    CASE d = 0 -> "0" [] d = 1 -> "1" [] d = 2 -> "2" [] d = 3 -> "3"
      [] d = 4 -> "4" [] d = 5 -> "5" [] d = 6 -> "6" [] d = 7 -> "7"

\* C33: for every byte c the decode trap appends exactly four characters to
\* the output, a backslash and the octal digits (c / 64) mod 4, (c / 8) mod 8
\* and c mod 8 in that order, and returns true.
C33_DecodeTrap ==
    calc.fn = "decode_text_trap" =>
        /\ calc.res.handled
        /\ calc.res.output =
              calc.output \o <<"\\", OctalDigit((calc.c \div 64) % 4),
                               OctalDigit((calc.c \div 8) % 8),
                               OctalDigit(calc.c % 8)>>

\* byte 0xFF is written as \377 after what the output held
C33_Witness ==
    /\ calc.fn = "decode_text_trap"
    /\ calc.c = 255
    /\ calc.output = <<"A">>
    /\ calc.res.output = <<"A", "\\", "3", "7", "7">>
    /\ calc.res.handled

====
